---- MODULE Spec2Model ----
(***************************************************************************)
(* Classical PSHA hazard calculator (openquake).                           *)
(*                                                                         *)
(*  - openquake/utils/tasks.py: distribute, _check_exception               *)
(*  - openquake/calculators/hazard/classical/core.py: execute, do_curves,  *)
(*    do_means, do_quantiles, serialize_hazard_curve (the polling loop),   *)
(*    release_data_from_kvs and the celery tasks.                          *)
(*                                                                         *)
(* Spec      is one run of ClassicalHazardCalculator.execute together with *)
(*           the celery workers, the KVS and the failure counters.         *)
(* SpecLive  is that run for jobs of one block and one realization, with   *)
(*           a scheduler fair to execute and to the workers.               *)
(* SpecSeeds is that run for each choice of the two logic-tree seeds.      *)
(* SpecScenarioB is that run for one job: three sites in one block, two    *)
(*           realizations, means, one quantile and one PoE.                *)
(* SpecDist  is one call of utils.tasks.distribute with an arbitrary task. *)
(*                                                                         *)
(* Times (the pause of the polling loop) are exact rationals <<n, d>>.     *)
(* The float comparisons of the code (value < 45, pause < min_pause) never *)
(* sit on a rounding boundary for the values the loop produces.            *)
(***************************************************************************)
EXTENDS Integers, Sequences, FiniteSets, TLC

(* ------------------------------ bounds --------------------------------- *)
NumSites == 3
MaxBlockSize == 2
MaxRealizations == 2
MaxItems == 2

(* ------------------------- rational arithmetic ------------------------- *)
RECURSIVE GCD(_, _)
GCD(a, b) == IF b = 0 THEN a ELSE GCD(b, a % b)

Rat(n, d) == <<n \div GCD(n, d), d \div GCD(n, d)>>

RMul(x, y) == Rat(x[1] * y[1], x[2] * y[2])

RLess(x, y) == x[1] * y[2] < y[1] * x[2]

RLeq(x, y) == x[1] * y[2] <= y[1] * x[2]

(* ------------------------------ python --------------------------------- *)
\* a dict-or-None argument: None, or a dict kept as a function on its keys
None == [given |-> FALSE, dict |-> <<>>]

Dict(d) == [given |-> TRUE, dict |-> d]

\* truth value of a dict-or-None argument (None and {} are falsy)
Truthy(a) == a.given /\ DOMAIN a.dict # {}

Range(f) == {f[i] : i \in DOMAIN f}

\* mutant of range: the upper end is included (range(0, n + 1, step))
RECURSIVE range_Inclusive(_, _, _)
range_Inclusive(lo, hi, step) ==
    IF lo > hi THEN <<>> ELSE <<lo>> \o range_Inclusive(lo + step, hi, step)

\* range(0, n, step) of execute
RECURSIVE range(_, _, _)
range(lo, hi, step) == IF lo >= hi THEN <<>> ELSE <<lo>> \o range(lo + step, hi, step)

\* the slice s[a:b] of a 0-based python list kept as a 1-based sequence
Slice(s, a, b) == SubSeq(s, a + 1, IF b < Len(s) THEN b ELSE Len(s))

\* random.Random() after seed(seed): a stream is known by its seed and by how
\* many values were drawn from it
Random(seed) == [seed |-> seed, n |-> 0]

\* the value of the next getrandbits(32) of a generator: the (n+1)-th value of
\* the stream of its seed
getrandbits(gen) == <<gen.seed, gen.n + 1>>

\* the generator after one getrandbits(32)
Drawn(gen) == [gen EXCEPT !.n = gen.n + 1]

(* ------------------------- kvs keys (kvs.tokens) ----------------------- *)
\* a template is <<kind, x, y>>; template % hash(site) is <<kind, x, y, site>>
hazard_curve_poes_key_template(realization) == <<"hazard_curve_poes", realization, 0>>

mean_hazard_curve_key_template == <<"mean_hazard_curve", 0, 0>>

quantile_hazard_curve_key_template(quantile) == <<"quantile_hazard_curve", quantile, 0>>

mean_hazard_map_key_template(poe) == <<"mean_hazard_map", poe, 0>>

quantile_hazard_map_key_template(poe, quantile) == <<"quantile_hazard_map", poe, quantile>>

KeyOf(template, site) == <<template[1], template[2], template[3], site>>

SiteOf(key) == key[4]

\* kvs.set for each key of keys, counted per key
KvsSet(count, keys) ==
    [k \in DOMAIN count \cup keys |->
        (IF k \in DOMAIN count THEN count[k] ELSE 0) + (IF k \in keys THEN 1 ELSE 0)]

(* --------------------------- utils.tasks ------------------------------- *)
\* mutant of Subtasks: the subtasks are built from the items in reverse order
Subtasks_Reversed(task_func, name, data, tf_args) ==
    [i \in 1..Len(data) |->
        [task |-> task_func,
         kwargs |-> IF Truthy(tf_args)
                    THEN (name :> data[Len(data) + 1 - i]) @@ tf_args.dict
                    ELSE (name :> data[Len(data) + 1 - i])]]

\* the subtask keyword arguments distribute builds, one per data item
Subtasks(task_func, name, data, tf_args) ==
    [i \in 1..Len(data) |->
        [task |-> task_func,
         kwargs |-> IF Truthy(tf_args) THEN (name :> data[i]) @@ tf_args.dict
                    ELSE (name :> data[i])]]

(* ------------------------------ state ---------------------------------- *)
VARIABLES
    job_ctxt,       \* the job: sites, NUMBER_OF_LOGIC_TREE_SAMPLES, COMPUTE_MEAN_HAZARD_CURVE,
                    \* QUANTILE_LEVELS, POES, block_size (immutable during a run)
    pc,             \* position of the orchestrator in execute and its callees
    bidx,           \* execute: index of `start` in blocks (0 before the loop)
    realization,    \* do_curves: loop variable
    phase,          \* which serializer called serialize_hazard_curve
    qidx,           \* serialize_quantile_hazard_curves: index of `quantile`
    pk,             \* stats progress counters of the job
    failures,       \* stats.failure_counters(job_id, "h")
    tasks,          \* celery subtasks applied and not yet finished
    cache,          \* the KVS: set of keys holding a value
    key_template,   \* serialize_hazard_curve: parameter
    psites,         \* serialize_hazard_curve: sites = set(sites)
    accounted_for,  \* serialize_hazard_curve: local
    pause,          \* serialize_hazard_curve: local
    value,          \* pause_generator: its local `value`
    xsc,            \* serialize_hazard_curve: XML serialization context
    sctx,           \* hazard_output.SerializerContext(), last update
    batches,        \* history: hc_data of every curve_writer.serialize of this invocation
    serialized,     \* history: every key whose curve was handed to a curve writer
    map_batches,    \* history: every map_writer.serialize, in order
    written,        \* history: every key ever set in the KVS
    writes,         \* history: how many times each key was set in the KVS
    purged,         \* history: sites whose block release_data_from_kvs has purged
    source_model_generator, \* do_curves: local random.Random
    gmpe_generator, \* do_curves: local random.Random
    draws,          \* history: the seeds handed to store_source_model and store_gmpe_map
    call,           \* distribute: its arguments (task_func, name, data, tf_args, ath, ...)
    dpc,            \* distribute: position of the caller
    applied,        \* the work queue: every task set applied, in order
    async,          \* the work queue: the outcome of each subtask of the task set
    finished,       \* history: the subtasks in the order they finished
    ath_calls,      \* history: the keyword arguments of every call of ath
    ret             \* distribute: how it ended (return value or exception)

run_vars == <<job_ctxt, pc, bidx, realization, phase, qidx, pk, failures, tasks, cache,
              key_template, psites, accounted_for, pause, value, xsc, sctx, batches,
              serialized, map_batches, written, writes, purged,
              source_model_generator, gmpe_generator, draws>>

poll_vars == <<key_template, psites, accounted_for, pause, value, xsc, sctx, batches>>

hist_vars == <<serialized, map_batches, written, writes, purged>>

seed_vars == <<source_model_generator, gmpe_generator, draws>>

dist_vars == <<call, dpc, applied, async, finished, ath_calls, ret>>

(* ------------------------ the job and its blocks ----------------------- *)
QuantileChoices == {<<>>, <<25, 75>>}

PoeChoices == {<<>>, <<10>>}

sites == job_ctxt.sites

realizations == job_ctxt.NUMBER_OF_LOGIC_TREE_SAMPLES

quantile_levels == job_ctxt.QUANTILE_LEVELS

poes_hazard_maps == job_ctxt.POES

block_size == job_ctxt.block_size

\* mutant of blocks: the range stops one site short (range(0, len(sites) - 1, ...))
blocks_OneShort == range(0, Len(sites) - 1, block_size)

\* execute: blocks = range(0, len(sites), block_size)
blocks == range(0, Len(sites), block_size)

\* mutant of data: the slice is one site too long (sites[start:end + 1])
data_OneTooLong == Slice(sites, blocks[bidx], blocks[bidx] + block_size + 1)

\* execute: data = sites[start:end]
data == Slice(sites, blocks[bidx], blocks[bidx] + block_size)

BlockOf(b) == Range(Slice(sites, blocks[b], blocks[b] + block_size))

\* mutant of OnePerSite: every chunk also holds the first site of the block
OnePerSite_WithFirst(ss) == [i \in 1..Len(ss) |-> <<ss[i], ss[1]>>]

\* [[s] for s in sites]
OnePerSite(ss) == [i \in 1..Len(ss) |-> <<ss[i]>>]

(* ------------------------- serialize_hazard_curve ---------------------- *)
min_pause == <<1, 10>>

\* mutant of pause_generator_next: doubles while below 90 instead of 45
pause_generator_next_Below90(v) == IF RLess(v, <<90, 1>>) THEN RMul(v, <<2, 1>>) ELSE v

\* mutant of pause_generator_next: once at the cap the generator starts over
pause_generator_next_Restart(v) == IF RLess(v, <<45, 1>>) THEN RMul(v, <<2, 1>>) ELSE min_pause

\* pause_generator: the value of every next() after the first
pause_generator_next(v) == IF RLess(v, <<45, 1>>) THEN RMul(v, <<2, 1>>) ELSE v

\* mutant of Decay: the floor at min_pause is missing
Decay_NoFloor(p) == RMul(p, <<4, 5>>)

\* pause *= 0.8; pause = min_pause if pause < min_pause else pause
Decay(p) == LET q == RMul(p, <<4, 5>>) IN IF RLess(q, min_pause) THEN min_pause ELSE q

\* mutant of NewlyFound: the `if site in accounted_for: continue` is missing
NewlyFound_NoSkip(ss, acc, template, kv) ==
    {s \in ss : KeyOf(template, s) \in kv}

\* mutant of NewlyFound: the `if value is None: continue` is missing
NewlyFound_NoKeyCheck(ss, acc, template, kv) ==
    {s \in ss : s \notin acc}

\* one pass of `for site in sites`: the sites appended to hc_data
NewlyFound(ss, acc, template, kv) ==
    {s \in ss : s \notin acc /\ KeyOf(template, s) \in kv}

\* mutant of LoopEnds: the loop stops with one site still missing
LoopEnds_OneShort(acc, ss) == Cardinality(acc) + 1 >= Cardinality(ss)

\* while accounted_for != sites: the loop is left when this holds
LoopEnds(acc, ss) == acc = ss

\* the entry of serialize_hazard_curve up to the while loop
PollInit(template, ss) ==
    /\ key_template' = template
    /\ xsc' = [blocks |-> pk.blocks, cblock |-> pk.cblock,
               i_total |-> Len(ss), i_done |-> 0, i_next |-> 0]
    /\ psites' = Range(ss)
    /\ accounted_for' = {}
    /\ value' = min_pause
    /\ pause' = min_pause
    /\ batches' = <<>>
    /\ UNCHANGED sctx

(* ------------------------------ workers -------------------------------- *)
\* ClassicalHazardCalculator.compute_hazard_curve: one key per site
hazard_curve_keys(kwargs) ==
    {KeyOf(hazard_curve_poes_key_template(kwargs.realization), s) :
        s \in Range(kwargs.sites)}

\* general.compute_mean_hazard_curves: one mean curve per site
mean_curve_keys(kwargs) ==
    {KeyOf(mean_hazard_curve_key_template, s) : s \in Range(kwargs.sites)}

\* general.compute_quantile_hazard_curves: one curve per site and quantile
quantile_curve_keys(kwargs) ==
    {KeyOf(quantile_hazard_curve_key_template(q), s) :
        q \in Range(kwargs.quantiles), s \in Range(kwargs.sites)}

\* the KVS keys a subtask sets when it succeeds
TaskKeys(t) ==
    CASE t.task = "compute_hazard_curve" -> hazard_curve_keys(t.kwargs)
      [] t.task = "compute_mean_curves" -> mean_curve_keys(t.kwargs)
      [] t.task = "compute_quantile_curves" -> quantile_curve_keys(t.kwargs)

\* general.compute_mean_hazard_maps: one map value per site and PoE
MeanMapKeys(ss, poes) ==
    {KeyOf(mean_hazard_map_key_template(p), s) : p \in Range(poes), s \in Range(ss)}

\* general.compute_quantile_hazard_maps: one map value per site, PoE and quantile
QuantileMapKeys(ss, quantiles, poes) ==
    {KeyOf(quantile_hazard_map_key_template(p, q), s) :
        p \in Range(poes), q \in Range(quantiles), s \in Range(ss)}

\* mutant of ReleaseKeys: the mean hazard maps are not deleted
ReleaseKeys_NoMeanMaps(ss, nreal, quantiles, poes) ==
    {KeyOf(hazard_curve_poes_key_template(r), s) : r \in 0..(nreal - 1), s \in Range(ss)}
    \cup {KeyOf(mean_hazard_curve_key_template, s) : s \in Range(ss)}
    \cup {KeyOf(quantile_hazard_curve_key_template(q), s) :
            q \in Range(quantiles), s \in Range(ss)}
    \cup {KeyOf(quantile_hazard_map_key_template(p, q), s) :
            p \in Range(poes), q \in Range(quantiles), s \in Range(ss)}

\* mutant of ReleaseKeys: the last realization is not deleted (xrange(1, realizations))
ReleaseKeys_OneRealizationShort(ss, nreal, quantiles, poes) ==
    {KeyOf(hazard_curve_poes_key_template(r), s) : r \in 0..(nreal - 2), s \in Range(ss)}
    \cup {KeyOf(mean_hazard_curve_key_template, s) : s \in Range(ss)}
    \cup {KeyOf(quantile_hazard_curve_key_template(q), s) :
            q \in Range(quantiles), s \in Range(ss)}
    \cup {KeyOf(quantile_hazard_map_key_template(p, q), s) :
            p \in Range(poes), q \in Range(quantiles), s \in Range(ss)}
    \cup {KeyOf(mean_hazard_map_key_template(p), s) : p \in Range(poes), s \in Range(ss)}

\* release_data_from_kvs: every key it deletes
ReleaseKeys(ss, nreal, quantiles, poes) ==
    {KeyOf(hazard_curve_poes_key_template(r), s) : r \in 0..(nreal - 1), s \in Range(ss)}
    \cup {KeyOf(mean_hazard_curve_key_template, s) : s \in Range(ss)}
    \cup {KeyOf(quantile_hazard_curve_key_template(q), s) :
            q \in Range(quantiles), s \in Range(ss)}
    \cup {KeyOf(quantile_hazard_map_key_template(p, q), s) :
            p \in Range(poes), q \in Range(quantiles), s \in Range(ss)}
    \cup {KeyOf(mean_hazard_map_key_template(p), s) : p \in Range(poes), s \in Range(ss)}

(* --------------------------- initial state ----------------------------- *)
NoTemplate == <<"none", 0, 0>>

NoXsc == [blocks |-> 0, cblock |-> 0, i_total |-> 0, i_done |-> 0, i_next |-> 0]

NoGenerator == [seed |-> 0, n |-> 0]

Jobs ==
    [sites : {[i \in 1..n |-> i] : n \in 0..NumSites},
     NUMBER_OF_LOGIC_TREE_SAMPLES : 1..MaxRealizations,
     COMPUTE_MEAN_HAZARD_CURVE : BOOLEAN,
     QUANTILE_LEVELS : QuantileChoices,
     POES : PoeChoices,
     block_size : 1..MaxBlockSize,
     SOURCE_MODEL_LT_RANDOM_SEED : {1},
     GMPE_LT_RANDOM_SEED : {2}]

\* the state in which execute is entered, whatever the job
BeforeExecute ==
    /\ pc = "execute"
    /\ bidx = 0
    /\ realization = 0
    /\ phase = "none"
    /\ qidx = 0
    /\ pk = [hcls_sites |-> 0, hcls_realizations |-> 0, block_size |-> 0,
             blocks |-> 0, cblock |-> 0, hcls_crealization |-> 0]
    /\ failures = 0
    /\ tasks = {}
    /\ cache = {}
    /\ key_template = NoTemplate
    /\ psites = {}
    /\ accounted_for = {}
    /\ pause = min_pause
    /\ value = min_pause
    /\ xsc = NoXsc
    /\ sctx = NoXsc
    /\ batches = <<>>
    /\ serialized = {}
    /\ map_batches = <<>>
    /\ written = {}
    /\ writes = <<>>
    /\ purged = {}
    /\ source_model_generator = NoGenerator
    /\ gmpe_generator = NoGenerator
    /\ draws = {}

InitRun ==
    /\ job_ctxt \in Jobs
    /\ BeforeExecute

(* ------------------------------ execute -------------------------------- *)
\* execute, up to the block loop: the progress counters
Execute ==
    /\ pc = "execute"
    /\ pk' = [pk EXCEPT !.hcls_sites = Len(sites),
                        !.hcls_realizations = realizations,
                        !.block_size = block_size,
                        !.blocks = Len(blocks),
                        !.cblock = 0]
    /\ pc' = "block_loop"
    /\ UNCHANGED <<dist_vars, seed_vars, job_ctxt, bidx, realization, phase, qidx, failures, tasks, cache>>
    /\ UNCHANGED <<poll_vars, hist_vars>>

\* for start in blocks: the next block, or the end of execute
BlockLoop ==
    /\ pc = "block_loop"
    /\ IF bidx < Len(blocks)
       THEN /\ bidx' = bidx + 1
            /\ pk' = [pk EXCEPT !.cblock = pk.cblock + 1]
            /\ pc' = "do_curves"
       ELSE /\ pc' = "done"
            /\ UNCHANGED <<bidx, pk>>
    /\ UNCHANGED <<dist_vars, seed_vars, job_ctxt, realization, phase, qidx, failures, tasks, cache>>
    /\ UNCHANGED <<poll_vars, hist_vars>>

\* do_curves, up to its loop
DoCurves ==
    /\ pc = "do_curves"
    /\ source_model_generator' = Random(job_ctxt.SOURCE_MODEL_LT_RANDOM_SEED)
    /\ gmpe_generator' = Random(job_ctxt.GMPE_LT_RANDOM_SEED)
    /\ pk' = [pk EXCEPT !.hcls_crealization = 0]
    /\ realization' = 0
    /\ pc' = "curves_loop"
    /\ UNCHANGED <<dist_vars, draws, job_ctxt, bidx, phase, qidx, failures, tasks, cache>>
    /\ UNCHANGED <<poll_vars, hist_vars>>

\* self.store_source_model(source_model_generator.getrandbits(32))
\* self.store_gmpe_map(source_model_generator.getrandbits(32))
StoreSeeds ==
    /\ draws' = draws \cup {[block |-> bidx, realization |-> realization,
                              source_model |-> getrandbits(source_model_generator),
                              gmpe_map |-> getrandbits(Drawn(source_model_generator))]}
    /\ source_model_generator' = Drawn(Drawn(source_model_generator))
    /\ UNCHANGED gmpe_generator

\* do_curves, one iteration: distribute applies the task set, then calls the
\* serializer (ath), which enters serialize_hazard_curve
CurvesLoop ==
    /\ pc = "curves_loop"
    /\ IF realization < realizations
       THEN /\ pk' = [pk EXCEPT !.hcls_crealization = pk.hcls_crealization + 1]
            /\ StoreSeeds
            /\ tasks' = tasks \cup Range(Subtasks("compute_hazard_curve", "sites",
                            OnePerSite(data),
                            Dict([job_id |-> "job", realization |-> realization])))
            /\ phase' = "raw"
            /\ PollInit(hazard_curve_poes_key_template(realization), data)
            /\ pc' = "poll_check"
       ELSE /\ pc' = "do_means"
            /\ UNCHANGED <<pk, tasks, phase, poll_vars, seed_vars>>
    /\ UNCHANGED <<dist_vars, job_ctxt, bidx, realization, qidx, failures, cache, hist_vars>>

\* mutant of DoMeans: the check of COMPUTE_MEAN_HAZARD_CURVE is missing
DoMeans_Unconditional ==
    /\ pc = "do_means"
    /\ tasks' = tasks \cup Range(Subtasks("compute_mean_curves", "sites",
                        OnePerSite(data),
                        Dict([job_id |-> "job", realizations |-> realizations])))
    /\ phase' = "mean"
    /\ PollInit(mean_hazard_curve_key_template, data)
    /\ pc' = "poll_check"
    /\ UNCHANGED <<dist_vars, seed_vars, job_ctxt, bidx, realization, qidx, pk, failures, cache, hist_vars>>

\* do_means: skipped unless configured, else distribute and serialize
DoMeans ==
    /\ pc = "do_means"
    /\ IF ~job_ctxt.COMPUTE_MEAN_HAZARD_CURVE
       THEN /\ pc' = "do_quantiles"
            /\ UNCHANGED <<tasks, phase, poll_vars>>
       ELSE /\ tasks' = tasks \cup Range(Subtasks("compute_mean_curves", "sites",
                            OnePerSite(data),
                            Dict([job_id |-> "job", realizations |-> realizations])))
            /\ phase' = "mean"
            /\ PollInit(mean_hazard_curve_key_template, data)
            /\ pc' = "poll_check"
    /\ UNCHANGED <<dist_vars, seed_vars, job_ctxt, bidx, realization, qidx, pk, failures, cache, hist_vars>>

\* mutant of MapBatches: the last site is left out of hm_data
MapBatches_SkipLast(templates, ss, kv) ==
    [i \in 1..Len(templates) |->
        [template |-> templates[i],
         hm_data |-> {<<ss[j], KeyOf(templates[i], ss[j]) \in kv>> : j \in 1..(Len(ss) - 1)}]]

\* serialize_hazard_map_at_poe for each template: hm_data pairs each site with
\* whether the KVS holds its value
MapBatches(templates, ss, kv) ==
    [i \in 1..Len(templates) |->
        [template |-> templates[i],
         hm_data |-> {<<s, KeyOf(templates[i], s) \in kv>> : s \in Range(ss)}]]

\* do_means after the curves: map_func and map_serializer when PoEs are set
MeanMaps ==
    /\ pc = "mean_maps"
    /\ IF poes_hazard_maps # <<>>
       THEN /\ cache' = cache \cup MeanMapKeys(data, poes_hazard_maps)
            /\ written' = written \cup MeanMapKeys(data, poes_hazard_maps)
            /\ writes' = KvsSet(writes, MeanMapKeys(data, poes_hazard_maps))
            /\ map_batches' = map_batches \o
                    MapBatches([i \in 1..Len(poes_hazard_maps) |->
                                    mean_hazard_map_key_template(poes_hazard_maps[i])],
                               data, cache')
            /\ sctx' = [blocks |-> pk.blocks, cblock |-> pk.cblock,
                        i_total |-> Len(data), i_done |-> 0, i_next |-> Len(data)]
       ELSE UNCHANGED <<cache, written, writes, map_batches, sctx>>
    /\ pc' = "do_quantiles"
    /\ UNCHANGED <<dist_vars, seed_vars, job_ctxt, bidx, realization, phase, qidx, pk, failures, tasks>>
    /\ UNCHANGED <<key_template, psites, accounted_for, pause, value, xsc, batches>>
    /\ UNCHANGED <<serialized, purged>>

\* do_quantiles: skipped when there are no quantiles, else one distribute whose
\* ath is serialize_quantile_hazard_curves, which starts with the first quantile
DoQuantiles ==
    /\ pc = "do_quantiles"
    /\ IF quantile_levels = <<>>
       THEN /\ pc' = "release"
            /\ UNCHANGED <<tasks, phase, qidx, poll_vars>>
       ELSE /\ tasks' = tasks \cup Range(Subtasks("compute_quantile_curves", "sites",
                            OnePerSite(data),
                            Dict([job_id |-> "job", realizations |-> realizations,
                                  quantiles |-> quantile_levels])))
            /\ phase' = "quantile"
            /\ qidx' = 1
            /\ PollInit(quantile_hazard_curve_key_template(quantile_levels[1]), data)
            /\ pc' = "poll_check"
    /\ UNCHANGED <<dist_vars, seed_vars, job_ctxt, bidx, realization, pk, failures, cache, hist_vars>>

\* mutant of QuantileMapTemplates: only the first quantile's maps are serialized
QuantileMapTemplates_FirstQuantileOnly(quantiles, poes) ==
    [i \in 1..Len(poes) |-> quantile_hazard_map_key_template(poes[i], quantiles[1])]

\* the templates serialize_quantile_hazard_map walks, quantile by quantile
QuantileMapTemplates(quantiles, poes) ==
    [i \in 1..(Len(quantiles) * Len(poes)) |->
        quantile_hazard_map_key_template(poes[((i - 1) % Len(poes)) + 1],
                                         quantiles[((i - 1) \div Len(poes)) + 1])]

\* do_quantiles after the curves: map_func, then map_serializer per quantile
QuantileMaps ==
    /\ pc = "quantile_maps"
    /\ IF poes_hazard_maps # <<>>
       THEN /\ cache' = cache \cup QuantileMapKeys(data, quantile_levels, poes_hazard_maps)
            /\ written' = written \cup QuantileMapKeys(data, quantile_levels, poes_hazard_maps)
            /\ writes' = KvsSet(writes, QuantileMapKeys(data, quantile_levels, poes_hazard_maps))
            /\ map_batches' = map_batches \o
                    MapBatches(QuantileMapTemplates(quantile_levels, poes_hazard_maps),
                               data, cache')
            /\ sctx' = [blocks |-> pk.blocks, cblock |-> pk.cblock,
                        i_total |-> Len(data), i_done |-> 0, i_next |-> Len(data)]
       ELSE UNCHANGED <<cache, written, writes, map_batches, sctx>>
    /\ pc' = "release"
    /\ UNCHANGED <<dist_vars, seed_vars, job_ctxt, bidx, realization, phase, qidx, pk, failures, tasks>>
    /\ UNCHANGED <<key_template, psites, accounted_for, pause, value, xsc, batches>>
    /\ UNCHANGED <<serialized, purged>>

\* release_data_from_kvs for the block, then back to the block loop
Release ==
    /\ pc = "release"
    /\ cache' = cache \ ReleaseKeys(data, realizations, quantile_levels, poes_hazard_maps)
    /\ purged' = purged \cup Range(data)
    /\ pc' = "block_loop"
    /\ UNCHANGED <<dist_vars, seed_vars, job_ctxt, bidx, realization, phase, qidx, pk, failures, tasks>>
    /\ UNCHANGED <<poll_vars, serialized, map_batches, written, writes>>

(* --------------------- serialize_hazard_curve: the loop ----------------- *)
\* while accounted_for != sites: the loop ends and the serializer returns.
\* serialize_quantile_hazard_curves goes on with its next quantile.
PollReturn ==
    /\ pc = "poll_check"
    /\ LoopEnds(accounted_for, psites)
    /\ CASE phase = "raw" ->
                /\ realization' = realization + 1
                /\ pc' = "curves_loop"
                /\ UNCHANGED <<qidx, poll_vars>>
         [] phase = "mean" ->
                /\ pc' = "mean_maps"
                /\ UNCHANGED <<realization, qidx, poll_vars>>
         [] phase = "quantile" /\ qidx < Len(quantile_levels) ->
                /\ qidx' = qidx + 1
                /\ PollInit(quantile_hazard_curve_key_template(quantile_levels[qidx + 1]), data)
                /\ pc' = "poll_check"
                /\ UNCHANGED realization
         [] phase = "quantile" /\ qidx >= Len(quantile_levels) ->
                /\ pc' = "quantile_maps"
                /\ UNCHANGED <<realization, qidx, poll_vars>>
    /\ UNCHANGED <<dist_vars, seed_vars, job_ctxt, bidx, phase, pk, failures, tasks, cache, hist_vars>>

\* mutant of PollAbort: the error is swallowed and execute goes on to the purge
PollAbort_Swallowed ==
    /\ pc = "poll_check"
    /\ ~LoopEnds(accounted_for, psites)
    /\ failures > 0
    /\ pc' = "release"
    /\ UNCHANGED <<dist_vars, seed_vars, job_ctxt, bidx, realization, phase, qidx, pk, failures, tasks, cache>>
    /\ UNCHANGED <<poll_vars, hist_vars>>

\* mutant of PollAbort: the loop also gives up once the pause has stopped growing
PollAbort_Timeout ==
    /\ pc = "poll_check"
    /\ ~LoopEnds(accounted_for, psites)
    /\ failures > 0 \/ ~RLess(value, <<45, 1>>)
    /\ pc' = "aborted"
    /\ UNCHANGED <<dist_vars, seed_vars, job_ctxt, bidx, realization, phase, qidx, pk, failures, tasks, cache>>
    /\ UNCHANGED <<poll_vars, hist_vars>>

\* failures = stats.failure_counters(...); if failures: raise RuntimeError.
\* Nothing in execute catches it: the run ends.
PollAbort ==
    /\ pc = "poll_check"
    /\ ~LoopEnds(accounted_for, psites)
    /\ failures > 0
    /\ pc' = "aborted"
    /\ UNCHANGED <<dist_vars, seed_vars, job_ctxt, bidx, realization, phase, qidx, pk, failures, tasks, cache>>
    /\ UNCHANGED <<poll_vars, hist_vars>>

\* no failure seen: hc_data = []; time.sleep(pause)
PollSleep ==
    /\ pc = "poll_check"
    /\ ~LoopEnds(accounted_for, psites)
    /\ failures = 0
    /\ pc' = "poll_sleep"
    /\ UNCHANGED <<dist_vars, seed_vars, job_ctxt, bidx, realization, phase, qidx, pk, failures, tasks, cache>>
    /\ UNCHANGED <<poll_vars, hist_vars>>

\* mutant of PollRead: the writer is called on every cycle, found or not
PollRead_AlwaysSerialize ==
    /\ pc = "poll_sleep"
    /\ LET hc_data == NewlyFound(psites, accounted_for, key_template, cache)
       IN /\ accounted_for' = accounted_for \cup hc_data
          /\ sctx' = [xsc EXCEPT !.i_next = Cardinality(hc_data)]
          /\ batches' = Append(batches, hc_data)
          /\ serialized' = serialized \cup {KeyOf(key_template, s) : s \in hc_data}
          /\ xsc' = [xsc EXCEPT !.i_done = xsc.i_done + Cardinality(hc_data)]
          /\ IF hc_data = {}
             THEN /\ value' = pause_generator_next(value)
                  /\ pause' = pause_generator_next(value)
             ELSE /\ pause' = Decay(pause)
                  /\ UNCHANGED value
    /\ pc' = "poll_check"
    /\ UNCHANGED <<dist_vars, seed_vars, job_ctxt, bidx, realization, phase, qidx, pk, failures, tasks, cache>>
    /\ UNCHANGED <<key_template, psites, map_batches, written, writes, purged>>

\* after the sleep: read the KVS for every site not accounted for, then either
\* lengthen the pause or serialize the batch and shorten the pause
PollRead ==
    /\ pc = "poll_sleep"
    /\ LET hc_data == NewlyFound(psites, accounted_for, key_template, cache)
       IN /\ accounted_for' = accounted_for \cup hc_data
          /\ IF hc_data = {}
             THEN /\ value' = pause_generator_next(value)
                  /\ pause' = pause_generator_next(value)
                  /\ UNCHANGED <<sctx, batches, serialized, xsc>>
             ELSE /\ sctx' = [xsc EXCEPT !.i_next = Cardinality(hc_data)]
                  /\ batches' = Append(batches, hc_data)
                  /\ serialized' = serialized \cup {KeyOf(key_template, s) : s \in hc_data}
                  /\ xsc' = [xsc EXCEPT !.i_done = xsc.i_done + Cardinality(hc_data)]
                  /\ pause' = Decay(pause)
                  /\ UNCHANGED value
    /\ pc' = "poll_check"
    /\ UNCHANGED <<dist_vars, seed_vars, job_ctxt, bidx, realization, phase, qidx, pk, failures, tasks, cache>>
    /\ UNCHANGED <<key_template, psites, map_batches, written, writes, purged>>

(* ------------------------------ workers -------------------------------- *)
\* a subtask runs to its end and sets its keys in the KVS
WorkerDone ==
    \E t \in tasks :
        /\ tasks' = tasks \ {t}
        /\ cache' = cache \cup TaskKeys(t)
        /\ written' = written \cup TaskKeys(t)
        /\ writes' = KvsSet(writes, TaskKeys(t))
        /\ UNCHANGED <<dist_vars, seed_vars, job_ctxt, pc, bidx, realization, phase, qidx, pk, failures>>
        /\ UNCHANGED <<poll_vars, serialized, map_batches, purged>>

\* a subtask raises: stats.progress_indicator counts the failure, no key is set
WorkerFail ==
    \E t \in tasks :
        /\ tasks' = tasks \ {t}
        /\ failures' = failures + 1
        /\ UNCHANGED <<dist_vars, seed_vars, job_ctxt, pc, bidx, realization, phase, qidx, pk, cache>>
        /\ UNCHANGED <<poll_vars, hist_vars>>

(* ------------------------- utils.tasks.distribute ---------------------- *)
Items == 1..MaxItems

\* what a subtask can return for its item: a scalar, a list, or an exception
SubtaskResults(item) ==
    {[kind |-> "scalar", v |-> <<item>>],
     [kind |-> "list", v |-> <<item, item + MaxItems>>],
     [kind |-> "error", v |-> <<item>>]}

Pending == [kind |-> "pending", v |-> <<>>]

NoRet == [kind |-> "none", results |-> <<>>, value |-> "", exc |-> <<>>]

AthReturns == {"None", "nrml_path"}

Calls ==
    [task_func : [ignore_result : BOOLEAN],
     name : {"sites"},
     data : UNION {[1..n -> Items] : n \in 0..MaxItems},
     tf_args : {None, Dict(<<>>), Dict([job_id |-> "job"])},
     ath : BOOLEAN,
     ath_args : {None, Dict([sites |-> "sites"])},
     flatten_results : BOOLEAN]

DistIdle ==
    /\ call = [task_func |-> [ignore_result |-> TRUE], name |-> "sites", data |-> <<>>,
               tf_args |-> None, ath |-> FALSE, ath_args |-> None,
               flatten_results |-> FALSE]
    /\ dpc = "idle"
    /\ applied = <<>>
    /\ async = <<>>
    /\ finished = <<>>
    /\ ath_calls = <<>>
    /\ ret = NoRet

InitDist ==
    /\ call \in Calls
    /\ dpc = "call"
    /\ applied = <<>>
    /\ async = <<>>
    /\ finished = <<>>
    /\ ath_calls = <<>>
    /\ ret = NoRet
    /\ job_ctxt = [sites |-> <<>>, NUMBER_OF_LOGIC_TREE_SAMPLES |-> 1,
                   COMPUTE_MEAN_HAZARD_CURVE |-> FALSE, QUANTILE_LEVELS |-> <<>>,
                   POES |-> <<>>, block_size |-> 1,
                   SOURCE_MODEL_LT_RANDOM_SEED |-> 1, GMPE_LT_RANDOM_SEED |-> 2]
    /\ pc = "idle"
    /\ bidx = 0
    /\ realization = 0
    /\ phase = "none"
    /\ qidx = 0
    /\ pk = [hcls_sites |-> 0, hcls_realizations |-> 0, block_size |-> 0,
             blocks |-> 0, cblock |-> 0, hcls_crealization |-> 0]
    /\ failures = 0
    /\ tasks = {}
    /\ cache = {}
    /\ key_template = NoTemplate
    /\ psites = {}
    /\ accounted_for = {}
    /\ pause = min_pause
    /\ value = min_pause
    /\ xsc = NoXsc
    /\ sctx = NoXsc
    /\ batches = <<>>
    /\ serialized = {}
    /\ map_batches = <<>>
    /\ written = {}
    /\ writes = <<>>
    /\ purged = {}
    /\ source_model_generator = NoGenerator
    /\ gmpe_generator = NoGenerator
    /\ draws = {}

\* mutant of FirstError: the last exception among the results is raised
FirstError_Last(results) ==
    IF \E i \in 1..Len(results) : results[i].kind = "error"
    THEN LET i == CHOOSE j \in 1..Len(results) :
                    /\ results[j].kind = "error"
                    /\ \A k \in (j + 1)..Len(results) : results[k].kind # "error"
         IN results[i].v
    ELSE <<>>

\* _check_exception: the first exception among the results, if any
FirstError(results) ==
    IF \E i \in 1..Len(results) : results[i].kind = "error"
    THEN LET i == CHOOSE j \in 1..Len(results) :
                    /\ results[j].kind = "error"
                    /\ \A k \in 1..(j - 1) : results[k].kind # "error"
         IN results[i].v
    ELSE <<>>

\* itertools.chain(*results) as a list
RECURSIVE Chain(_)
Chain(results) ==
    IF results = <<>> THEN <<>> ELSE Head(results).v \o Chain(Tail(results))

\* distribute from its entry to TaskSet(tasks=subtasks).apply_async()
DistApply ==
    /\ dpc = "call"
    /\ applied' = Append(applied,
                         Subtasks("task_func", call.name, call.data, call.tf_args))
    /\ async' = [i \in 1..Len(call.data) |-> Pending]
    /\ dpc' = "applied"
    /\ UNCHANGED <<call, finished, ath_calls, ret, run_vars>>

\* a subtask of the task set finishes, in any order
SubtaskFinish ==
    \E i \in 1..Len(async) :
        /\ async[i] = Pending
        /\ \E r \in SubtaskResults(applied[1][i].kwargs[call.name]) :
                async' = [async EXCEPT ![i] = r]
        /\ finished' = Append(finished, i)
        /\ UNCHANGED <<call, dpc, applied, ath_calls, ret, run_vars>>

\* mutant of DistAth: ath is called only once every subtask has finished
DistAth_AfterJoin ==
    /\ dpc = "applied"
    /\ call.task_func.ignore_result
    /\ call.ath
    /\ \A i \in 1..Len(async) : async[i] # Pending
    /\ ath_calls' = Append(ath_calls,
                           IF Truthy(call.ath_args) THEN call.ath_args.dict ELSE <<>>)
    /\ dpc' = "ath"
    /\ UNCHANGED <<call, applied, async, finished, ret, run_vars>>

\* mutant of DistAth: ath is called whether or not the results are ignored
DistAth_AnyTask ==
    /\ dpc = "applied"
    /\ call.ath
    /\ ath_calls' = Append(ath_calls,
                           IF Truthy(call.ath_args) THEN call.ath_args.dict ELSE <<>>)
    /\ dpc' = "ath"
    /\ UNCHANGED <<call, applied, async, finished, ret, run_vars>>

\* ignore_result and ath: return ath(**ath_args), or ath() for no ath_args
DistAth ==
    /\ dpc = "applied"
    /\ call.task_func.ignore_result
    /\ call.ath
    /\ ath_calls' = Append(ath_calls,
                           IF Truthy(call.ath_args) THEN call.ath_args.dict ELSE <<>>)
    /\ dpc' = "ath"
    /\ UNCHANGED <<call, applied, async, finished, ret, run_vars>>

\* ath returns and distribute returns its value
AthReturn ==
    /\ dpc = "ath"
    /\ \E v \in AthReturns : ret' = [NoRet EXCEPT !.kind = "return_ath", !.value = v]
    /\ dpc' = "done"
    /\ UNCHANGED <<call, applied, async, finished, ath_calls, run_vars>>

\* ignore_result and no ath: distribute falls off its end and returns None
DistReturnNone ==
    /\ dpc = "applied"
    /\ call.task_func.ignore_result
    /\ ~call.ath
    /\ ret' = [NoRet EXCEPT !.kind = "return_None", !.value = "None"]
    /\ dpc' = "done"
    /\ UNCHANGED <<call, applied, async, finished, ath_calls, run_vars>>

\* results expected: join_native blocks until every subtask has finished and
\* returns their results in subtask order; then _check_exception and flattening
DistJoin ==
    /\ dpc = "applied"
    /\ ~call.task_func.ignore_result
    /\ \A i \in 1..Len(async) : async[i] # Pending
    /\ LET results == async
       IN ret' =
            IF \E i \in 1..Len(results) : results[i].kind = "error"
            THEN [NoRet EXCEPT !.kind = "raise", !.exc = FirstError(results)]
            ELSE IF results # <<>> /\ call.flatten_results /\ results[1].kind = "list"
            THEN IF \A i \in 1..Len(results) : results[i].kind = "list"
                 THEN [NoRet EXCEPT !.kind = "return_flat", !.results = Chain(results)]
                 ELSE [NoRet EXCEPT !.kind = "raise", !.value = "TypeError"]
            ELSE [NoRet EXCEPT !.kind = "return_results", !.results = results]
    /\ dpc' = "done"
    /\ UNCHANGED <<call, applied, async, finished, ath_calls, run_vars>>

NextDist ==
    \/ DistApply
    \/ SubtaskFinish
    \/ DistAth
    \/ AthReturn
    \/ DistReturnNone
    \/ DistJoin

vars == <<run_vars, dist_vars>>

Init == InitRun /\ DistIdle

Next ==
    \/ Execute
    \/ BlockLoop
    \/ DoCurves
    \/ CurvesLoop
    \/ DoMeans
    \/ MeanMaps
    \/ DoQuantiles
    \/ QuantileMaps
    \/ Release
    \/ PollReturn
    \/ PollAbort
    \/ PollSleep
    \/ PollRead
    \/ WorkerDone
    \/ WorkerFail

Spec == Init /\ [][Next]_vars

\* the steps of the process that runs execute
Orchestrator ==
    \/ Execute
    \/ BlockLoop
    \/ DoCurves
    \/ CurvesLoop
    \/ DoMeans
    \/ MeanMaps
    \/ DoQuantiles
    \/ QuantileMaps
    \/ Release
    \/ PollReturn
    \/ PollAbort
    \/ PollSleep
    \/ PollRead

\* the run with a scheduler that is fair to the process running execute (it
\* runs alone and time.sleep returns) and to the celery workers (a subtask
\* that can finish eventually does, unless it fails)
\* the jobs of one block and one realization: every kind of polling
\* invocation (raw, mean, one per quantile) happens once
OneBlockJobs ==
    {j \in Jobs : Len(j.sites) <= j.block_size /\ j.NUMBER_OF_LOGIC_TREE_SAMPLES = 1}

InitLive ==
    /\ Init
    /\ job_ctxt \in OneBlockJobs

SpecLive == InitLive /\ [][Next]_vars /\ WF_vars(Orchestrator) /\ WF_vars(WorkerDone)

\* the values tried for the two seeds of a job
SeedChoices == {1, 2}

\* jobs of two blocks and two realizations with every phase configured, for
\* every choice of SOURCE_MODEL_LT_RANDOM_SEED and GMPE_LT_RANDOM_SEED
SeededJobs ==
    {[j EXCEPT !.SOURCE_MODEL_LT_RANDOM_SEED = a, !.GMPE_LT_RANDOM_SEED = b] :
        j \in {i \in Jobs : /\ Len(i.sites) = 2
                            /\ i.block_size = 1
                            /\ i.NUMBER_OF_LOGIC_TREE_SAMPLES = 2
                            /\ i.COMPUTE_MEAN_HAZARD_CURVE
                            /\ i.QUANTILE_LEVELS = <<25, 75>>
                            /\ i.POES = <<10>>},
        a \in SeedChoices, b \in SeedChoices}

InitSeeds ==
    /\ job_ctxt \in SeededJobs
    /\ BeforeExecute
    /\ DistIdle

\* the run for each choice of the two seeds
SpecSeeds == InitSeeds /\ [][Next]_vars

SpecDist == InitDist /\ [][NextDist]_vars

(* ------------------------------ claims --------------------------------- *)
\* a polling invocation has left its loop (and, for one that returned, the
\* caller has not yet entered the next invocation)
PollReturned ==
    \/ pc = "poll_check" /\ accounted_for = psites
    \/ pc \in {"curves_loop", "mean_maps", "quantile_maps"}

\* C1: in one invocation of serialize_hazard_curve the batches handed to
\* curve_writer.serialize are pairwise disjoint, and when the invocation
\* returns their union is exactly the set of expected sites.
C1_BatchesDisjointAndComplete ==
    /\ \A i, j \in 1..Len(batches) : i # j => batches[i] \cap batches[j] = {}
    /\ PollReturned => UNION Range(batches) = psites

\* C1 witness: an invocation over two sites returned after handing the
\* writer two batches, the second site first.
C1_Witness ==
    /\ pc = "poll_check"
    /\ accounted_for = psites
    /\ batches = <<{2}, {1}>>

\* C2: once a failure is recorded for the job, the aggregator performs no
\* further cache read: every step that reads the KVS after the sleep is taken
\* with no failure recorded.
C2_NoReadAfterFailure ==
    [][(pc = "poll_sleep" /\ pc' = "poll_check") => failures = 0]_vars

\* C3: once a block is purged, no key written for one of its sites is in the
\* cache, and no subtask that would write one is still running.
C3_PurgedKeysAbsent ==
    /\ \A k \in written : SiteOf(k) \in purged => k \notin cache
    /\ \A t \in tasks : Range(t.kwargs.sites) \cap purged = {}

\* C3 witness: a purged site for which raw, mean and quantile curves and mean
\* and quantile maps were all written.
C3_Witness ==
    \E s \in purged :
        \A kind \in {"hazard_curve_poes", "mean_hazard_curve", "quantile_hazard_curve",
                     "mean_hazard_map", "quantile_hazard_map"} :
            \E k \in written : k[1] = kind /\ SiteOf(k) = s

\* a map of site s under the template was handed to a map writer
MapSerialized(template, s) ==
    \E i \in 1..Len(map_batches) :
        /\ map_batches[i].template = template
        /\ <<s, TRUE>> \in map_batches[i].hm_data

\* every curve and map of site s that the configured phases produce was
\* serialized
AllPhasesSerialized(s) ==
    /\ \A r \in 0..(realizations - 1) :
            KeyOf(hazard_curve_poes_key_template(r), s) \in serialized
    /\ job_ctxt.COMPUTE_MEAN_HAZARD_CURVE =>
            /\ KeyOf(mean_hazard_curve_key_template, s) \in serialized
            /\ \A p \in Range(poes_hazard_maps) :
                    MapSerialized(mean_hazard_map_key_template(p), s)
    /\ \A q \in Range(quantile_levels) :
            /\ KeyOf(quantile_hazard_curve_key_template(q), s) \in serialized
            /\ \A p \in Range(poes_hazard_maps) :
                    MapSerialized(quantile_hazard_map_key_template(p, q), s)

\* C4: a block is purged only after its raw, mean and quantile curves have all
\* been serialized; once a phase has aborted, the block in progress is not
\* purged and nothing more happens in execute: no purge, no further block.
C4_PurgeOnlyAfterSerialization ==
    /\ [](\A s \in purged : AllPhasesSerialized(s))
    /\ [](pc = "aborted" => Range(data) \cap purged = {})
    /\ [][pc = "aborted" => (pc' = "aborted" /\ purged' = purged /\ bidx' = bidx)]_vars

\* C4 witness: a run that aborted in its second block, after purging the
\* first and with a third block not started.
C4_Witness ==
    /\ pc = "aborted"
    /\ purged # {}
    /\ bidx = 2
    /\ Len(blocks) = 3

\* C5: every key in the cache belongs to a site of the block being processed,
\* so keys of two blocks are never in the cache together.
C5_CacheHoldsOneBlock ==
    cache # {} =>
        /\ bidx >= 1
        /\ LET block == BlockOf(bidx) IN \A k \in cache : SiteOf(k) \in block

\* C5 witness: the cache holds keys while a second or later block is processed.
C5_Witness ==
    /\ bidx >= 2
    /\ purged # {}
    /\ Cardinality(cache) >= 2

\* C6: distribute with an empty item sequence applies no task set and ends by
\* raising.
C6_EmptyInputFails ==
    (call.data = <<>> /\ dpc \in {"applied", "ath", "done"}) =>
        (applied = <<>> /\ (dpc = "done" => ret.kind = "raise"))

\* C7: when results are expected and some subtask result is an exception,
\* distribute raises the first exception in result order and returns nothing.
C7_FirstErrorRaised ==
    (/\ dpc = "done"
     /\ ~call.task_func.ignore_result
     /\ \E i \in 1..Len(async) : async[i].kind = "error") =>
        /\ ret.kind = "raise"
        /\ ret.results = <<>>
        /\ \E i \in 1..Len(async) :
                /\ async[i].kind = "error"
                /\ \A k \in 1..(i - 1) : async[k].kind # "error"
                /\ ret.exc = async[i].v

\* C7 witness: two subtasks raised different exceptions, the second one first.
C7_Witness ==
    /\ dpc = "done"
    /\ ~call.task_func.ignore_result
    /\ Len(async) = 2
    /\ async[1].kind = "error"
    /\ async[2].kind = "error"
    /\ async[1].v # async[2].v
    /\ finished = <<2, 1>>

\* distribute applied exactly one task set, one subtask per item in item
\* order, each with the fixed arguments plus its item
OneSubtaskPerItem ==
    /\ Len(applied) = 1
    /\ Len(applied[1]) = Len(call.data)
    /\ \A i \in 1..Len(call.data) :
            /\ applied[1][i].kwargs[call.name] = call.data[i]
            /\ Truthy(call.tf_args) =>
                    \A a \in DOMAIN call.tf_args.dict \ {call.name} :
                        applied[1][i].kwargs[a] = call.tf_args.dict[a]

NoSubtaskError == \A i \in 1..Len(async) : async[i].kind # "error"

\* C8 as stated: for a non-empty item sequence (and no failed subtask),
\* distribute returns one result per item, in item order.
C8_OneResultPerItem ==
    (/\ dpc = "done"
     /\ ~call.task_func.ignore_result
     /\ call.data # <<>>
     /\ NoSubtaskError) =>
        /\ OneSubtaskPerItem
        /\ ret.kind = "return_results"
        /\ Len(ret.results) = Len(call.data)
        /\ \A i \in 1..Len(call.data) : ret.results[i].v[1] = call.data[i]

\* C8 amended: one subtask per item; with no failed subtask, and unless
\* flatten_results is set and the first result is a list, one result per item
\* in item order; with flatten_results set and every result a list, the
\* concatenation of the items' results in item order.
C8_OneResultPerItemUnlessFlattened ==
    (/\ dpc = "done"
     /\ ~call.task_func.ignore_result
     /\ call.data # <<>>) =>
        /\ OneSubtaskPerItem
        /\ (NoSubtaskError /\ ~(call.flatten_results /\ async[1].kind = "list")) =>
                /\ ret.kind = "return_results"
                /\ Len(ret.results) = Len(call.data)
                /\ \A i \in 1..Len(call.data) : ret.results[i].v[1] = call.data[i]
        /\ (call.flatten_results /\ \A i \in 1..Len(async) : async[i].kind = "list") =>
                /\ ret.kind = "return_flat"
                /\ Len(ret.results) = 2 * Len(call.data)
                /\ \A i \in 1..Len(call.data) :
                        /\ ret.results[2 * i - 1] = call.data[i]
                        /\ ret.results[2 * i] = call.data[i] + MaxItems

\* C8 witness: two different items whose subtasks finished in reverse order,
\* results returned one per item.
C8_Witness ==
    /\ dpc = "done"
    /\ ret.kind = "return_results"
    /\ Len(call.data) = 2
    /\ call.data[1] # call.data[2]
    /\ finished = <<2, 1>>

\* C9: for a task with ignore_result, ath is called only after the task set
\* was applied, at most once, with exactly ath_args as keyword arguments, and
\* neither the call of ath nor the return of None waits for a subtask; the
\* call ends with ath's value, or with None when there is no ath.
C9_FireAndContinue ==
    /\ ath_calls # <<>> =>
            /\ Len(applied) = 1
            /\ Len(ath_calls) = 1
            /\ call.task_func.ignore_result /\ call.ath
            /\ IF Truthy(call.ath_args)
               THEN ath_calls[1] = call.ath_args.dict
               ELSE DOMAIN ath_calls[1] = {}
    /\ (dpc = "applied" /\ call.task_func.ignore_result) =>
            ENABLED (DistAth \/ DistReturnNone)
    /\ (dpc = "done" /\ call.task_func.ignore_result) =>
            /\ Len(applied) = 1
            /\ call.ath => (ret.kind = "return_ath" /\ Len(ath_calls) = 1)
            /\ ~call.ath => (ret.kind = "return_None" /\ ath_calls = <<>>)

\* C9 witness: ath is running, called with ath_args, while no subtask of the
\* two applied has finished.
C9_Witness ==
    /\ dpc = "ath"
    /\ Truthy(call.ath_args)
    /\ Len(async) = 2
    /\ \A i \in 1..Len(async) : async[i] = Pending

\* C10: the pause of the polling loop stays between min_pause and 90.
C10_PauseWithinBounds ==
    /\ RLeq(min_pause, pause)
    /\ RLeq(pause, <<90, 1>>)

\* C10 witness: after cycles with and without completions the pause is above
\* 45, where the generator has stopped doubling.
C10_Witness ==
    /\ pc = "poll_check"
    /\ batches # <<>>
    /\ accounted_for # psites
    /\ RLess(<<45, 1>>, pause)

\* a poll cycle (sleep, then one pass over the sites) that found no new site
CycleWithoutCompletion ==
    pc = "poll_sleep" /\ pc' = "poll_check" /\ accounted_for' = accounted_for

\* a poll cycle that found at least one new site
CycleWithCompletion ==
    pc = "poll_sleep" /\ pc' = "poll_check" /\ accounted_for' # accounted_for

\* C11: on every poll cycle in which no site newly completes, the pause after
\* the cycle is at least the pause before it, also after earlier decays.
C11_NoCompletionNeverShortens ==
    [][CycleWithoutCompletion => RLeq(pause, pause')]_vars

\* C11 witness: the invocation has serialized a batch (so the pause was
\* decayed) and its last cycle found nothing: the pause is the generator's
\* value again, above min_pause.
C11_Witness ==
    /\ pc = "poll_check"
    /\ batches # <<>>
    /\ accounted_for # psites
    /\ pause = value
    /\ RLess(min_pause, pause)

\* max(min_pause, 0.8 x p)
DecayedPause(p) ==
    IF RLeq(min_pause, <<4 * p[1], 5 * p[2]>>) THEN Rat(4 * p[1], 5 * p[2]) ELSE min_pause

\* C12 as stated: on every poll cycle with a completion the pause after the
\* cycle is strictly smaller than before and equals max(min_pause, 0.8 x
\* previous pause), also when the previous pause is min_pause.
C12_DecayStrictlySmaller ==
    [][CycleWithCompletion =>
            (RLess(pause', pause) /\ pause' = DecayedPause(pause))]_vars

\* C12 amended: on every poll cycle with a completion the pause after the
\* cycle equals max(min_pause, 0.8 x previous pause); it is strictly smaller
\* than before when the previous pause is above min_pause and stays min_pause
\* when the previous pause is min_pause.
C12_DecayToFloor ==
    [][CycleWithCompletion =>
            /\ pause' = DecayedPause(pause)
            /\ RLess(min_pause, pause) => RLess(pause', pause)
            /\ pause = min_pause => pause' = min_pause]_vars

\* C12 witness: the last cycle serialized a batch and left a pause strictly
\* between min_pause and the generator's value: a decay above the floor.
C12_Witness ==
    /\ pc = "poll_check"
    /\ batches # <<>>
    /\ RLess(min_pause, pause)
    /\ RLess(pause, value)

\* C13: on every poll cycle with no completion the new pause is computed from
\* the current pause: twice it when it is below 45, else unchanged, also when
\* the current pause was reduced by a decay.
C13_EscalationFromCurrentPause ==
    [][CycleWithoutCompletion =>
            pause' = (IF RLess(pause, <<45, 1>>) THEN RMul(pause, <<2, 1>>) ELSE pause)]_vars

InPoll == pc \in {"poll_check", "poll_sleep"}

\* a step by which an invocation of serialize_hazard_curve returns
PollExit ==
    /\ pc = "poll_check"
    /\ pc' \in {"curves_loop", "mean_maps", "quantile_maps"} \/ qidx' # qidx

\* C14: with fair workers and as long as no failure is recorded, a polling
\* invocation eventually finds its loop condition false and returns; it
\* returns only when every expected site was read from the cache and handed
\* to the curve writer, and once that is so it sleeps no more.
C14_PollTerminatesWhenComplete ==
    /\ InPoll ~> (failures > 0 \/ (pc = "poll_check" /\ accounted_for = psites))
    /\ (pc = "poll_check" /\ accounted_for = psites)
            ~> ~(pc = "poll_check" /\ accounted_for = psites)
    /\ [][PollExit =>
            /\ accounted_for = psites
            /\ UNION Range(batches) = psites
            /\ \A s \in psites : /\ KeyOf(key_template, s) \in written
                                 /\ KeyOf(key_template, s) \in serialized]_vars
    /\ [][(pc = "poll_check" /\ accounted_for = psites) => pc' # "poll_sleep"]_vars

\* C14 witness: an invocation over two sites is about to return after two
\* batches, with cycles that found nothing before and between them.
C14_Witness ==
    /\ pc = "poll_check"
    /\ failures = 0
    /\ accounted_for = psites
    /\ Len(batches) = 2
    /\ RLess(<<1, 5>>, value)

\* C15: the polling loop has no timeout. It is left only by returning, every
\* expected key having appeared in the cache, or by raising, a failure being
\* recorded; otherwise the next sleep and the next read are always possible,
\* and the run stays where it is: no next phase, no purge.
C15_NoExitWithoutKeyOrFailure ==
    /\ [][(InPoll /\ (~InPoll' \/ qidx' # qidx)) =>
            IF pc' = "aborted"
            THEN failures > 0
            ELSE \A s \in psites : KeyOf(key_template, s) \in written]_vars
    /\ [][(InPoll /\ \E s \in psites : KeyOf(key_template, s) \notin written) =>
            (pc' = "aborted" \/ (InPoll' /\ UNCHANGED <<bidx, phase, qidx, realization, purged>>))]_vars
    /\ []((pc = "poll_check" /\ accounted_for # psites /\ failures = 0) => ENABLED PollSleep)
    /\ [](pc = "poll_sleep" => ENABLED PollRead)

\* C15 witness: no failure is recorded, a subtask has not written its key, and
\* the loop has cycled until the generator stopped doubling: it still polls.
C15_Witness ==
    /\ pc = "poll_check"
    /\ failures = 0
    /\ tasks # {}
    /\ accounted_for # psites
    /\ ~RLess(value, <<45, 1>>)

StatKinds == {"mean_hazard_curve", "quantile_hazard_curve", "mean_hazard_map",
              "quantile_hazard_map"}

\* C16: when a subtask of the raw phase of a block has failed, the run stays
\* in the polling loop of that raw phase until it aborts there: the invocation
\* cannot complete, no mean or quantile task of the block is submitted, no
\* mean or quantile key of the block is written, and the block is not purged.
C16_RawFailureAbortsInRawPhase ==
    (failures > 0 /\ phase = "raw") =>
        LET block == BlockOf(bidx)
        IN /\ pc \in {"poll_check", "poll_sleep", "aborted"}
           /\ accounted_for # psites
           /\ \A t \in tasks : t.task = "compute_hazard_curve"
           /\ \A k \in written \cup serialized : SiteOf(k) \in block => k[1] \notin StatKinds
           /\ block \cap purged = {}

\* C16 witness: a job with mean curves and quantiles aborted in the raw phase
\* of its second realization after one raw subtask failed, the other site of
\* the block having been serialized.
C16_Witness ==
    /\ pc = "aborted"
    /\ phase = "raw"
    /\ failures = 1
    /\ realization = 1
    /\ batches # <<>>
    /\ job_ctxt.COMPUTE_MEAN_HAZARD_CURVE
    /\ quantile_levels # <<>>

\* C17: blocks are processed one after the other in index order: a subtask of
\* a block is in flight or a key of a block has been written only when every
\* earlier block has been purged, and only for blocks up to the current one.
C17_BlocksSequential ==
    LET active == {SiteOf(k) : k \in written}
                    \cup UNION {Range(t.kwargs.sites) : t \in tasks}
    IN \A b \in 1..Len(blocks) :
            active \cap BlockOf(b) # {} =>
                /\ b <= bidx
                /\ \A a \in 1..(b - 1) : BlockOf(a) \subseteq purged

\* C17 witness: subtasks of the second block are in flight, the first block
\* purged and a third block to come.
C17_Witness ==
    /\ bidx = 2
    /\ Len(blocks) = 3
    /\ tasks # {}
    /\ BlockOf(1) \subseteq purged
    /\ cache = {}

\* C18: every raw curve key (job, realization, site) is set at most once in
\* the whole run, and is set only while its site's block is not purged.
C18_RawKeyWrittenOnce ==
    /\ [](\A k \in DOMAIN writes : k[1] = "hazard_curve_poes" => writes[k] <= 1)
    /\ [][\A k \in DOMAIN writes' :
            (k[1] = "hazard_curve_poes"
             /\ (k \notin DOMAIN writes \/ writes'[k] # writes[k])) =>
                SiteOf(k) \notin purged]_vars

\* C18 witness: the run is over, with several blocks and realizations, and
\* every raw key of every site was set.
C18_Witness ==
    /\ pc = "done"
    /\ Len(blocks) >= 2
    /\ realizations = 2
    /\ \A i \in 1..Len(sites) : \A r \in 0..(realizations - 1) :
            /\ KeyOf(hazard_curve_poes_key_template(r), sites[i]) \in DOMAIN writes
            /\ writes[KeyOf(hazard_curve_poes_key_template(r), sites[i])] = 1

MeanKinds == {"mean_hazard_curve", "mean_hazard_map"}

QuantileKinds == {"quantile_hazard_curve", "quantile_hazard_map"}

\* the phase of the given kinds left no trace: no subtask, no polling
\* invocation (the only reader of the cache), no key, no serialized curve or map
PhaseIsNoOp(task, name, kinds) ==
    /\ \A t \in tasks : t.task # task
    /\ phase # name
    /\ key_template[1] \notin kinds
    /\ \A k \in written \cup serialized \cup cache : k[1] \notin kinds
    /\ \A i \in 1..Len(map_batches) : map_batches[i].template[1] \notin kinds

\* C19: a statistic phase that is not configured does nothing and is no
\* error: with no quantiles there is no quantile subtask, cache read, curve or
\* map; likewise for the mean phase without COMPUTE_MEAN_HAZARD_CURVE; do_means
\* hands over to do_quantiles and do_quantiles to the purge of the block.
C19_UnconfiguredPhaseIsNoOp ==
    /\ [](~job_ctxt.COMPUTE_MEAN_HAZARD_CURVE =>
            PhaseIsNoOp("compute_mean_curves", "mean", MeanKinds))
    /\ [](quantile_levels = <<>> =>
            PhaseIsNoOp("compute_quantile_curves", "quantile", QuantileKinds))
    /\ [][(pc = "do_means" /\ ~job_ctxt.COMPUTE_MEAN_HAZARD_CURVE) =>
            (pc' \in {"do_means", "do_quantiles"} /\ failures' = failures)]_vars
    /\ [][(pc = "do_quantiles" /\ quantile_levels = <<>>) =>
            (pc' \in {"do_quantiles", "release"} /\ failures' = failures)]_vars

\* C19 witness: a job with neither mean curves nor quantiles, but with PoEs
\* for hazard maps, has purged its first block.
C19_Witness ==
    /\ ~job_ctxt.COMPUTE_MEAN_HAZARD_CURVE
    /\ quantile_levels = <<>>
    /\ poes_hazard_maps # <<>>
    /\ purged # {}
    /\ pc = "do_curves"

\* C20: for each realization the source-model seed is drawn from the stream
\* seeded with SOURCE_MODEL_LT_RANDOM_SEED and the GMPE seed from a second
\* stream seeded with GMPE_LT_RANDOM_SEED, of which it is the draw of that
\* realization (so it depends on the GMPE seed and the realization only); the
\* two draws of a realization are the same in every block.
C20_TwoIndependentSeededStreams ==
    \A d \in draws :
        /\ d.source_model[1] = job_ctxt.SOURCE_MODEL_LT_RANDOM_SEED
        /\ d.gmpe_map = <<job_ctxt.GMPE_LT_RANDOM_SEED, d.realization + 1>>
        /\ \A e \in draws :
                e.realization = d.realization =>
                    (e.source_model = d.source_model /\ e.gmpe_map = d.gmpe_map)

\* the number of sites in the first n batches of the invocation
RECURSIVE SitesWritten(_)
SitesWritten(n) == IF n = 0 THEN 0 ELSE Cardinality(batches[n]) + SitesWritten(n - 1)

\* C21: the curve writer is called once per poll cycle that found a new site,
\* with the sites found in that cycle, and the context published just before
\* the call has i_total = number of expected sites, i_next = size of the batch,
\* i_done = number of sites of the earlier batches of the invocation, and
\* i_done + i_next <= i_total, with equality exactly on the last batch.
C21_ProgressContextPerBatch ==
    /\ []((InPoll /\ batches # <<>>) =>
            /\ sctx.i_total = Cardinality(psites)
            /\ sctx.i_next = Cardinality(batches[Len(batches)])
            /\ sctx.i_done = SitesWritten(Len(batches) - 1)
            /\ sctx.i_done + sctx.i_next <= sctx.i_total
            /\ (sctx.i_done + sctx.i_next = sctx.i_total) <=> (accounted_for = psites))
    /\ [][CycleWithCompletion =>
            /\ Len(batches') = Len(batches) + 1
            /\ batches'[Len(batches')] = accounted_for' \ accounted_for]_vars
    /\ [][CycleWithoutCompletion => (batches' = batches /\ sctx' = sctx)]_vars

\* C21 witness: the second batch of an invocation over two sites was written:
\* one site done before it, one site in it.
C21_Witness ==
    /\ pc = "poll_check"
    /\ Len(batches) = 2
    /\ sctx.i_done = 1
    /\ sctx.i_next = 1
    /\ sctx.i_total = 2

\* scenario B: three sites in one block, two realizations, mean curves, one
\* quantile and one PoE
ScenarioB ==
    [sites |-> <<1, 2, 3>>,
     NUMBER_OF_LOGIC_TREE_SAMPLES |-> 2,
     COMPUTE_MEAN_HAZARD_CURVE |-> TRUE,
     QUANTILE_LEVELS |-> <<50>>,
     POES |-> <<10>>,
     block_size |-> 3,
     SOURCE_MODEL_LT_RANDOM_SEED |-> 1,
     GMPE_LT_RANDOM_SEED |-> 2]

InitScenarioB ==
    /\ job_ctxt = ScenarioB
    /\ BeforeExecute
    /\ DistIdle

\* the run of scenario B
SpecScenarioB == InitScenarioB /\ [][Next]_vars

KeysOfKind(keys, kind) == {k \in keys : k[1] = kind}

\* C22: when the run of scenario B has ended without a failure, it has written
\* exactly 6 raw curve keys, 3 mean curve keys and 3 quantile curve keys (one
\* per site and realization, resp. per site), has serialized one mean map
\* batch and one quantile map batch of the 3 sites each, and the cache holds
\* none of these keys nor a map key.
C22_ScenarioB ==
    (pc = "done" /\ failures = 0) =>
        /\ Cardinality(KeysOfKind(written, "hazard_curve_poes")) = 6
        /\ Cardinality(KeysOfKind(written, "mean_hazard_curve")) = 3
        /\ Cardinality(KeysOfKind(written, "quantile_hazard_curve")) = 3
        /\ \A k \in written : writes[k] = 1
        /\ Len(map_batches) = 2
        /\ map_batches[1].template[1] = "mean_hazard_map"
        /\ map_batches[2].template[1] = "quantile_hazard_map"
        /\ \A i \in 1..2 : map_batches[i].hm_data = {<<s, TRUE>> : s \in 1..3}
        /\ purged = {1, 2, 3}
        /\ cache = {}

\* C22 witness: scenario B has ended without a failure, all eighteen keys
\* (twelve curves, six map values) written.
C22_Witness ==
    /\ job_ctxt = ScenarioB
    /\ pc = "done"
    /\ failures = 0
    /\ Cardinality(written) = 18

\* execute is inside the body of its block loop
InBlock ==
    pc \in {"do_curves", "curves_loop", "do_means", "mean_maps", "do_quantiles",
            "quantile_maps", "release", "poll_check", "poll_sleep"}

\* C23: while a block is processed 1 <= cblock <= blocks and cblock is the
\* 1-based index of the block; blocks is ceil(number of sites / block size)
\* from the end of the set-up on; in the raw phase hcls_crealization is 0 when
\* the phase starts, r + 1 while realization r is distributed and polled, and
\* never more than the number of realizations.
C23_ProgressCounters ==
    /\ pc # "execute" => pk.blocks = (Len(sites) + block_size - 1) \div block_size
    /\ InBlock =>
            /\ pk.cblock = bidx
            /\ 1 <= pk.cblock
            /\ pk.cblock <= pk.blocks
    /\ pc = "curves_loop" =>
            /\ pk.hcls_crealization = realization
            /\ pk.hcls_crealization <= realizations
    /\ (InPoll /\ phase = "raw") =>
            /\ pk.hcls_crealization = realization + 1
            /\ pk.hcls_crealization <= realizations

\* C23 witness: the last realization of the last of three blocks is polled.
C23_Witness ==
    /\ pc = "poll_sleep"
    /\ phase = "raw"
    /\ pk.cblock = 3
    /\ pk.blocks = 3
    /\ pk.hcls_crealization = 2
    /\ realizations = 2

\* the keys a finishing subtask reads: a mean or quantile reduction reads the
\* raw curve of each of its sites for every realization
WorkerReads(t) ==
    IF t.task = "compute_hazard_curve"
    THEN {}
    ELSE {KeyOf(hazard_curve_poes_key_template(r), s) :
            r \in 0..(t.kwargs.realizations - 1), s \in Range(t.kwargs.sites)}

\* the keys read from the cache by the step about to be taken from this state
\* by the polling loop or by a map serializer
OrchestratorReads ==
    CASE pc = "poll_sleep" ->
            {KeyOf(key_template, s) : s \in psites \ accounted_for}
      [] pc = "mean_maps" -> MeanMapKeys(data, poes_hazard_maps)
      [] pc = "quantile_maps" -> QuantileMapKeys(data, quantile_levels, poes_hazard_maps)
      [] OTHER -> {}

\* C24: no key of a purged block is read: the polling loop and the map
\* serializers read only keys of sites that are not purged, a subtask in
\* flight (which still has reads or writes to do) never belongs to a purged
\* site, and when release_data_from_kvs starts no subtask is in flight.
C24_NoReadAfterPurge ==
    /\ \A k \in OrchestratorReads : SiteOf(k) \notin purged
    /\ \A t \in tasks :
            /\ Range(t.kwargs.sites) \cap purged = {}
            /\ \A k \in WorkerReads(t) \cup TaskKeys(t) : SiteOf(k) \notin purged
    /\ pc = "release" => tasks = {}

\* C24 witness: the release of the second block is about to start, after
\* mean and quantile reductions and maps, the first block purged.
C24_Witness ==
    /\ pc = "release"
    /\ bidx = 2
    /\ purged # {}
    /\ tasks = {}
    /\ \E k \in cache : k[1] = "quantile_hazard_map"
    /\ \E k \in cache : k[1] = "mean_hazard_map"

RawTasks == {t \in tasks : t.task = "compute_hazard_curve"}

\* C25: within the raw phase of a block the realizations are handled one
\* after the other: the raw subtasks in flight all belong to one realization,
\* the one being polled, and they were submitted only after the curve of every
\* site of the block was read and serialized for every earlier realization.
C25_RealizationsSequential ==
    RawTasks # {} =>
        LET block == BlockOf(bidx)
        IN /\ \A t \in RawTasks :
                /\ t.kwargs.realization = realization
                /\ Range(t.kwargs.sites) \subseteq block
           /\ \A r \in 0..(realization - 1) : \A s \in block :
                KeyOf(hazard_curve_poes_key_template(r), s) \in serialized

\* C25 witness: both subtasks of the second realization of a block of two
\* sites are in flight.
C25_Witness ==
    /\ phase = "raw"
    /\ realization = 1
    /\ Cardinality(RawTasks) = 2
    /\ failures = 0

\* the positions of execute between the end of do_curves and the purge
AfterCurves ==
    \/ pc \in {"do_means", "mean_maps", "do_quantiles", "quantile_maps",
               "release"}
    \/ InPoll /\ phase \in {"mean", "quantile"}

\* C26: from the submission of the mean reduction of a block until the
\* block's purge, the realization curve of every site of the block for every
\* realization 0..R-1 is in the cache, and every reduction subtask in flight
\* finds the realization curves of its sites in the cache.
C26_CurvesPresentForReduction ==
    /\ AfterCurves =>
           LET block == BlockOf(bidx)
           IN \A r \in 0..(realizations - 1) : \A s \in block :
                  KeyOf(hazard_curve_poes_key_template(r), s) \in cache
    /\ \A t \in tasks : WorkerReads(t) \subseteq cache

\* C26 witness: a quantile-reduction subtask of the second block is in
\* flight, after the mean phase of that block.
C26_Witness ==
    /\ bidx = 2
    /\ phase = "quantile"
    /\ \E t \in tasks : t.task # "compute_hazard_curve" /\ WorkerReads(t) # {}
    /\ \E k \in cache : k[1] = "mean_hazard_curve" /\ SiteOf(k) \in BlockOf(bidx)

QuantileTasks(ts) == {t \in ts : t.task = "compute_quantile_curves"}

\* a step that starts the poll/serialize of one quantile's curves
StartsQuantilePoll ==
    /\ pc = "do_quantiles" \/ (pc = "poll_check" /\ qidx' # qidx)
    /\ pc' = "poll_check"
    /\ phase' = "quantile"

\* C27 (as stated): the quantile reduction is distributed once for each
\* configured quantile, each fan-out followed by that quantile's
\* poll/serialize step.
C27_FanOutPerQuantile ==
    [][StartsQuantilePoll =>
          QuantileTasks(tasks') \ QuantileTasks(tasks) # {}]_vars

\* C27 (amended): the quantile reduction is distributed once per block for
\* the whole quantile list, one subtask per site of the block with every
\* configured quantile in its arguments; the poll/serialize step then runs
\* once per quantile, in list order, with no further fan-out; the quantile-map
\* reduction runs once for all quantiles and its maps are then serialized
\* quantile by quantile, every PoE of a quantile before the next quantile.
C27_OneFanOutForAllQuantiles ==
    /\ [][QuantileTasks(tasks') \ QuantileTasks(tasks) # {} =>
            LET new == tasks' \ tasks
                block == BlockOf(bidx)
            IN /\ pc = "do_quantiles"
               /\ quantile_levels # <<>>
               /\ \A t \in new : /\ t.task = "compute_quantile_curves"
                                 /\ t.kwargs.quantiles = quantile_levels
                                 /\ Len(t.kwargs.sites) = 1
               /\ {t.kwargs.sites[1] : t \in new} = block
               /\ Cardinality(new) = Cardinality(block)
               /\ qidx' = 1]_vars
    /\ [][StartsQuantilePoll =>
            /\ key_template' =
                   quantile_hazard_curve_key_template(quantile_levels[qidx'])
            /\ accounted_for' = {}
            /\ pc = "poll_check" =>
                   /\ qidx' = qidx + 1
                   /\ qidx' <= Len(quantile_levels)
                   /\ tasks' = tasks
                   /\ \A s \in BlockOf(bidx) :
                          KeyOf(key_template, s) \in serialized]_vars
    /\ [][(pc = "quantile_maps" /\ pc' # pc /\ poes_hazard_maps # <<>>) =>
            LET nq == Len(quantile_levels)
                np == Len(poes_hazard_maps)
                before == Len(map_batches)
            IN /\ qidx = nq
               /\ written' \ written =
                      {<<"quantile_hazard_map", poes_hazard_maps[p],
                         quantile_levels[q], s>> :
                           p \in 1..np, q \in 1..nq, s \in BlockOf(bidx)}
               /\ Len(map_batches') = before + nq * np
               /\ \A q \in 1..nq : \A p \in 1..np :
                      LET b == map_batches'[before + (q - 1) * np + p]
                      IN /\ b.template = <<"quantile_hazard_map",
                                           poes_hazard_maps[p], quantile_levels[q]>>
                         /\ b.hm_data = {<<s, TRUE>> : s \in BlockOf(bidx)}]_vars

\* C27 witness: a block with two quantiles and a PoE is ready for its purge,
\* the maps of the first quantile serialized before those of the second.
C27_Witness ==
    /\ pc = "release"
    /\ phase = "quantile"
    /\ Len(quantile_levels) = 2
    /\ qidx = 2
    /\ poes_hazard_maps # <<>>
    /\ Len(map_batches) >= 2
    /\ map_batches[Len(map_batches) - 1].template[3] = quantile_levels[1]
    /\ map_batches[Len(map_batches)].template[3] = quantile_levels[2]

\* C28: every batch the polling loop hands to the curve writer is non-empty;
\* a poll cycle that finds no new site leaves the writer, the serializer
\* context, the progress counters and the accounted-for set as they were;
\* within one invocation the accounted-for set only grows, inside the set of
\* expected sites.
C28_BatchesNonEmpty ==
    /\ [](/\ \A i \in 1..Len(batches) : batches[i] # {} /\ batches[i] \subseteq psites
          /\ InPoll => accounted_for \subseteq psites)
    /\ [][(pc = "poll_sleep" /\ pc' = "poll_check") =>
            LET found == {s \in psites \ accounted_for : KeyOf(key_template, s) \in cache}
            IN IF found = {}
               THEN UNCHANGED <<accounted_for, batches, serialized, sctx, xsc>>
               ELSE /\ batches' = Append(batches, found)
                    /\ accounted_for' = accounted_for \cup found]_vars
    /\ [][(pc = "poll_sleep" \/ pc' = "poll_sleep") =>
            /\ accounted_for \subseteq accounted_for'
            /\ accounted_for' \subseteq psites']_vars

\* C28 witness: one invocation has had a cycle that found nothing and a
\* cycle that found some, but not all, of its sites.
C28_Witness ==
    /\ pc = "poll_check"
    /\ Len(batches) = 1
    /\ value # min_pause
    /\ accounted_for # {}
    /\ accounted_for # psites

\* C29: when the task's results are not ignored, ath is never invoked,
\* whatever ath and ath_args are: distribute ends only once every subtask has
\* finished, and what it hands back is the outcome of the join (the subtask
\* results, flattened or not, or the exception found among them), never the
\* value of ath and never None.
C29_AthIgnoredWhenCollecting ==
    ~call.task_func.ignore_result =>
        /\ ath_calls = <<>>
        /\ dpc # "ath"
        /\ dpc = "done" =>
             /\ \A i \in 1..Len(async) : async[i] # Pending
             /\ ret.kind \in {"return_results", "return_flat", "raise"}
             /\ ret.kind = "return_results" => ret.results = async

\* C29 witness: a call with ath and ath_args and a task whose results are
\* collected has returned the results of its two subtasks.
C29_Witness ==
    /\ dpc = "done"
    /\ ~call.task_func.ignore_result
    /\ call.ath
    /\ Truthy(call.ath_args)
    /\ Len(call.data) = 2
    /\ ret.kind = "return_results"
    /\ ret.results = async

\* the number of blocks of n sites in blocks of size b
NumBlocks(n, b) == (n + b - 1) \div b

\* the keys of every phase configured for the job, for the sites ss
ConfiguredCurveKeys(ss) ==
    {KeyOf(hazard_curve_poes_key_template(r), s) : r \in 0..(realizations - 1), s \in ss}
    \cup (IF job_ctxt.COMPUTE_MEAN_HAZARD_CURVE
          THEN {KeyOf(mean_hazard_curve_key_template, s) : s \in ss} ELSE {})
    \cup {KeyOf(quantile_hazard_curve_key_template(q), s) :
              q \in Range(quantile_levels), s \in ss}

\* C30: block b (counted from 1) is the contiguous slice of the site list
\* from position (b-1)*B to b*B, cut at the end of the list: the blocks are
\* disjoint, follow each other without a gap, every block but the last has B
\* sites and the last has 1..B; the blocks already purged are exactly the
\* sites before the current slice; the last, shorter block has its raw, mean
\* and quantile curves serialized and its keys purged like a full block; an
\* empty site list gives zero blocks and no task, poll, write or purge.
C30_BlockPartition ==
    LET n == Len(sites)
        nb == NumBlocks(n, block_size)
        first == (bidx - 1) * block_size + 1
        last == IF bidx * block_size < n THEN bidx * block_size ELSE n
    IN /\ bidx <= nb
       /\ InBlock =>
            /\ 1 <= bidx
            /\ data = [i \in 1..(last - first + 1) |-> sites[first + i - 1]]
            /\ 1 <= Len(data) /\ Len(data) <= block_size
            /\ bidx < nb => Len(data) = block_size
            /\ InPoll => psites = Range(data)
            /\ \A t \in tasks : Range(t.kwargs.sites) \subseteq Range(data)
            /\ purged = {sites[i] : i \in 1..(first - 1)}
       /\ pc = "block_loop" => purged = {sites[i] : i \in 1..last}
       /\ pc = "done" =>
            /\ bidx = nb
            /\ purged = Range(sites)
            /\ ConfiguredCurveKeys(Range(sites)) \subseteq serialized
            /\ cache = {}
       /\ n = 0 =>
            /\ pc \in {"execute", "block_loop", "done"}
            /\ bidx = 0
            /\ tasks = {}
            /\ written = {}
            /\ serialized = {}
            /\ purged = {}
            /\ batches = <<>>

\* C30 witness: three sites in blocks of two; the last block, of one site,
\* has gone through every phase and the run has ended with all sites purged.
C30_Witness ==
    /\ pc = "done"
    /\ Len(sites) = 3
    /\ block_size = 2
    /\ bidx = 2
    /\ job_ctxt.COMPUTE_MEAN_HAZARD_CURVE
    /\ quantile_levels # <<>>
    /\ ConfiguredCurveKeys({3}) \subseteq serialized
    /\ purged = {1, 2, 3}

====
